---- MODULE Spec2Model ----
(***************************************************************************)
(* The Post resource handlers of routes/api/posts.js: seven express routes *)
(* over the Post collection (posts with an array of likers and an array of *)
(* embedded comments).                                                     *)
(*                                                                         *)
(* Spec      : every request runs to completion before the next starts.    *)
(* SpecLikes : Spec restricted to the requests that touch likes, run for   *)
(*             longer.                                                     *)
(* SpecImported : the collection starts with a post that was not written   *)
(*             through these handlers, so comment ids may repeat in it.    *)
(* SpecAsync : the handlers' awaits are scheduling points, so the store    *)
(*             read (findById) and the store write (save / remove) of a    *)
(*             request are separate steps and requests interleave.         *)
(***************************************************************************)
EXTENDS Integers, Sequences, FiniteSets, TLC

\* ---------------------------------------------------------------- bounds
MaxPosts == 2          \* posts ever created
MaxComments == 2       \* comments ever created
MaxReqs == 4           \* requests served in a run of Spec
MaxLikeReqs == 5       \* requests served in a run of SpecLikes
MaxSteps == 6          \* handler steps taken in a run of SpecAsync
MaxImported == 3       \* comments of the imported post of SpecImported
MaxImportedReqs == 1   \* requests served in a run of SpecImported

\* ---------------------------------------------------------------- inputs
\* Users with a document in the User collection.
RegisteredUsers == {"u1", "u2"}
\* Identities the auth middleware lets through (req.user.id); "u3" holds a
\* valid token but has no User document any more.
Callers == RegisteredUsers \cup {"u3"}
\* req.body.text of a post and of a comment; "" is what the validator rejects.
PostTexts == {"", "p"}
CommentTexts == {"", "a", "b"}
\* A ':id' parameter the store cannot cast to an ObjectId.
BadId == 0
PostIds == 1..MaxPosts
CommentIds == 1..MaxComments
\* Requests in flight at once in SpecAsync.
Slots == {1, 2}

Min(a, b) == IF a <= b THEN a ELSE b

VARIABLES
    posts,          \* the Post collection: stored id -> document
    nextPostId,     \* ids are never reused
    nextCommentId,
    last,           \* history: the request completed last (Spec)
    left,           \* requests still to be served (Spec, SpecLikes)
    orig,           \* history: when the last two requests are successful
                    \* ToggleLikes of one caller on one post, the likes before
                    \* the first of them; else empty
    deleted,        \* history: ids of the posts a DeletePost answered 200 for
    inflight,       \* SpecAsync: slot -> the request suspended at an await
    lastSave,       \* history: the last array write of SpecAsync
    prevSave,       \* history: the array write before it
    wcount,         \* history: id -> number of writes to that document
    nstep           \* steps taken (SpecAsync)

vars == <<posts, nextPostId, nextCommentId, last, left, orig, deleted,
          inflight, lastSave, prevSave, wcount, nstep>>

asyncVars == <<inflight, lastSave, prevSave, wcount, nstep>>
seqVars == <<last, left, orig, deleted>>

\* The ':id' parameters worth telling apart: the malformed one, the ids of
\* the posts created so far and one id no post was created with (the
\* handlers treat all such ids alike).
RequestIds == {BadId} \cup (1 .. Min(nextPostId, MaxPosts))

\* The ':c_id' parameters worth telling apart: the ids of the comments
\* created so far and one id no comment was created with. ':c_id' is compared
\* as a string and never cast, so there is no malformed one.
RequestCommentIds == 1 .. Min(nextCommentId, MaxComments)

\* ------------------------------------------------------------- the store
\* User.findById(id).select('-password'): <<>> stands for null.
UserFindById(u) ==
    IF u \in RegisteredUsers
    THEN << [name |-> <<"name", u>>, avatar |-> <<"avatar", u>>] >>
    ELSE << >>

\* Post.findById(id): <<>> stands for null.
FindById(ps, id) == IF id \in DOMAIN ps THEN << ps[id] >> ELSE << >>

\* What a store call of the handler throws: a cast error for a malformed id
\* (kind 'ObjectId'), any other failure of the store when `fault`, else
\* nothing. `fault` is drawn only for requests that reach the store with a
\* castable id: the others are answered before the store could fail.
StoreErr(id, fault) ==
    IF id = BadId THEN "ObjectId" ELSE IF fault THEN "other" ELSE "none"

\* new Post({text, name, avatar, user}): likes and comments start empty.
NewPost(caller, text, user, date) ==
    [ user |-> caller, name |-> user.name, avatar |-> user.avatar,
      text |-> text, likes |-> << >>, comments |-> << >>, date |-> date ]

NewComment(cid, caller, text, user) ==
    [ id |-> cid, user |-> caller, name |-> user.name,
      avatar |-> user.avatar, text |-> text ]

\* ------------------------------------------------------------- responses
Json(status, kind, val) ==
    [ status |-> status, body |-> [kind |-> kind, val |-> val] ]

ServerError == Json(500, "text", "Server Error")

ValidationError == Json(400, "errors", << "Text is required" >>)

\* catch (err) { res.status(500).send('Server Error') }
CatchPlain(err) == << ServerError >>

\* Faulty variant: the catch block without its ObjectId test.
CatchObjectIdUntested(err, msg) == << ServerError >>

\* catch (err) { if (err.kind === 'ObjectId') res.status(404).json({msg});
\*               res.status(500).send('Server Error') }
\* The 404 branch does not return: the 500 write follows it.
CatchObjectId(err, msg) ==
    IF err = "ObjectId"
    THEN << Json(404, "msg", msg), ServerError >>
    ELSE << ServerError >>

Outcome(w, ps) == [ writes |-> w, posts |-> ps ]

\* ---------------------------------------------------------- array helpers
\* The id a stored liker answers to in `liker.id === req.user.id`.
LikerId(liker) == liker

\* Faulty variant: the like is pushed to the tail instead of unshifted.
ToggleLikesPush(likes, caller) ==
    IF Len(SelectSeq(likes, LAMBDA liker : LikerId(liker) = caller)) = 0
    THEN likes \o << caller >>
    ELSE SelectSeq(likes, LAMBDA liker : LikerId(liker) # caller)

\* Faulty variant: the membership test never finds the caller.
ToggleLikesAlwaysAdd(likes, caller) == << caller >> \o likes

\* post.likes after the if/else of the tlike handler.
ToggleLikes(likes, caller) ==
    IF Len(SelectSeq(likes, LAMBDA liker : LikerId(liker) = caller)) = 0
    THEN << caller >> \o likes
    ELSE SelectSeq(likes, LAMBDA liker : LikerId(liker) # caller)

\* Faulty variant: push instead of unshift.
PushComment(comments, c) == comments \o << c >>

\* post.comments.unshift(newComment)
UnshiftComment(comments, c) == << c >> \o comments

CommentsMatched(comments, cid) == SelectSeq(comments, LAMBDA cmt : cmt.id = cid)

RemoveComment(comments, cid) == SelectSeq(comments, LAMBDA cmt : cmt.id # cid)

\* Post.find().sort({date: -1})
RECURSIVE SortByDateDesc(_, _)
SortByDateDesc(ps, ids) ==
    IF ids = {} THEN << >>
    ELSE LET newest == CHOOSE i \in ids : \A j \in ids : ps[j].date <= ps[i].date
         IN  << ps[newest] >> \o SortByDateDesc(ps, ids \ {newest})

\* ---------------------------------------------------------------- handlers
\* Each handler as a function of the store and the request: the response
\* writes it attempts, in order, and the store it leaves.

\* router.post('/')
CreatePostH(ps, newId, caller, text, fault) ==
    IF text = "" THEN Outcome(<< ValidationError >>, ps)
    ELSE IF fault THEN Outcome(CatchPlain("other"), ps)
    ELSE LET user == UserFindById(caller) IN
         IF user = << >> THEN Outcome(CatchPlain("TypeError"), ps)
         ELSE LET post == NewPost(caller, text, user[1], newId) IN
              Outcome(<< Json(200, "post", post) >>, ps @@ (newId :> post))

\* router.get('/')
ListPostsH(ps, fault) ==
    IF fault THEN Outcome(CatchPlain("other"), ps)
    ELSE Outcome(<< Json(200, "posts", SortByDateDesc(ps, DOMAIN ps)) >>, ps)

\* router.get('/:id')
GetPostH(ps, id, fault) ==
    LET err == StoreErr(id, fault) IN
    IF err # "none" THEN Outcome(CatchObjectId(err, "Post not found"), ps)
    ELSE LET post == FindById(ps, id) IN
         IF post = << >> THEN Outcome(<< Json(404, "msg", "Post not found") >>, ps)
         ELSE Outcome(<< Json(200, "post", post[1]) >>, ps)

\* Faulty variant: the ownership test is missing.
DeletePostUnowned(ps, caller, id, fault) ==
    LET err == StoreErr(id, fault) IN
    IF err # "none" THEN Outcome(CatchObjectId(err, "Post not found"), ps)
    ELSE LET post == FindById(ps, id) IN
         IF post = << >> THEN Outcome(<< Json(404, "msg", "Post not found") >>, ps)
         ELSE Outcome(<< Json(200, "msg", "Post deleted") >>,
                      [i \in DOMAIN ps \ {id} |-> ps[i]])

\* router.delete('/:id')
DeletePostH(ps, caller, id, fault) ==
    LET err == StoreErr(id, fault) IN
    IF err # "none" THEN Outcome(CatchObjectId(err, "Post not found"), ps)
    ELSE LET post == FindById(ps, id) IN
         IF post = << >> THEN Outcome(<< Json(404, "msg", "Post not found") >>, ps)
         ELSE IF post[1].user # caller
              THEN Outcome(<< Json(401, "msg", "Not your post") >>, ps)
         ELSE Outcome(<< Json(200, "msg", "Post deleted") >>,
                      [i \in DOMAIN ps \ {id} |-> ps[i]])

\* router.put('/:id/tlike')
ToggleLikeH(ps, caller, id, fault) ==
    LET err == StoreErr(id, fault) IN
    IF err # "none" THEN Outcome(CatchPlain(err), ps)
    ELSE LET post == FindById(ps, id) IN
         IF post = << >> THEN Outcome(CatchPlain("TypeError"), ps)
         ELSE LET likes == ToggleLikes(post[1].likes, caller) IN
              Outcome(<< Json(200, "likes", likes) >>,
                      [ps EXCEPT ![id].likes = likes])

\* router.post('/:id')
AddCommentH(ps, newCid, caller, id, text, fault) ==
    IF text = "" THEN Outcome(<< ValidationError >>, ps)
    ELSE LET err == StoreErr(id, fault)
             user == UserFindById(caller)
             post == FindById(ps, id)
         IN
         IF err # "none" THEN Outcome(CatchPlain(err), ps)
         ELSE IF user = << >> \/ post = << >> THEN Outcome(CatchPlain("TypeError"), ps)
         ELSE LET comments == UnshiftComment(post[1].comments,
                                             NewComment(newCid, caller, text, user[1]))
              IN  Outcome(<< Json(200, "comments", comments) >>,
                          [ps EXCEPT ![id].comments = comments])

\* Faulty variant: only "no match" is rejected (length === 0 for length !== 1).
DeleteCommentAnyMatch(ps, caller, id, cid, fault) ==
    LET err == StoreErr(id, fault) IN
    IF err # "none" THEN Outcome(CatchObjectId(err, "Couldn't locate resource"), ps)
    ELSE LET post == FindById(ps, id) IN
         IF post = << >> THEN Outcome(<< Json(404, "msg", "Post not found") >>, ps)
         ELSE LET commentsMatched == CommentsMatched(post[1].comments, cid) IN
              IF Len(commentsMatched) = 0
              THEN Outcome(<< Json(404, "msg", "Comment not found") >>, ps)
              ELSE IF commentsMatched[1].user # caller
              THEN Outcome(<< Json(401, "msg", "Not your comment") >>, ps)
              ELSE Outcome(<< Json(200, "msg", "Comment deleted") >>,
                           [ps EXCEPT ![id].comments =
                                RemoveComment(post[1].comments, cid)])

\* Faulty variant: the caller is compared with the post's owner, not the comment's.
DeleteCommentPostOwner(ps, caller, id, cid, fault) ==
    LET err == StoreErr(id, fault) IN
    IF err # "none" THEN Outcome(CatchObjectId(err, "Couldn't locate resource"), ps)
    ELSE LET post == FindById(ps, id) IN
         IF post = << >> THEN Outcome(<< Json(404, "msg", "Post not found") >>, ps)
         ELSE LET commentsMatched == CommentsMatched(post[1].comments, cid) IN
              IF Len(commentsMatched) # 1
              THEN Outcome(<< Json(404, "msg", "Comment not found") >>, ps)
              ELSE IF post[1].user # caller
              THEN Outcome(<< Json(401, "msg", "Not your comment") >>, ps)
              ELSE Outcome(<< Json(200, "msg", "Comment deleted") >>,
                           [ps EXCEPT ![id].comments =
                                RemoveComment(post[1].comments, cid)])

\* router.delete('/:p_id/:c_id')
DeleteCommentH(ps, caller, id, cid, fault) ==
    LET err == StoreErr(id, fault) IN
    IF err # "none" THEN Outcome(CatchObjectId(err, "Couldn't locate resource"), ps)
    ELSE LET post == FindById(ps, id) IN
         IF post = << >> THEN Outcome(<< Json(404, "msg", "Post not found") >>, ps)
         ELSE LET commentsMatched == CommentsMatched(post[1].comments, cid) IN
              IF Len(commentsMatched) # 1
              THEN Outcome(<< Json(404, "msg", "Comment not found") >>, ps)
              ELSE IF commentsMatched[1].user # caller
              THEN Outcome(<< Json(401, "msg", "Not your comment") >>, ps)
              ELSE Outcome(<< Json(200, "msg", "Comment deleted") >>,
                           [ps EXCEPT ![id].comments =
                                RemoveComment(post[1].comments, cid)])

\* ------------------------------------------------------------------ Spec
\* Recorded for the handlers that never read req.user.
NoCaller == "-"

NoReq ==
    [ op |-> "none", caller |-> NoCaller, id |-> BadId, cid |-> 0, text |-> "",
      fault |-> FALSE, writes |-> << >>, before |-> << >>, frame |-> TRUE ]

Idle == [ op |-> "idle" ]

NoSave == [ kind |-> "none" ]

InitStore ==
    /\ posts = << >>
    /\ nextPostId = 1
    /\ nextCommentId = 1
    /\ last = NoReq
    /\ orig = << >>
    /\ deleted = {}
    /\ inflight = [s \in Slots |-> Idle]
    /\ lastSave = NoSave
    /\ prevSave = NoSave
    /\ wcount = [i \in PostIds |-> 0]
    /\ nstep = 0

Init == InitStore /\ left = MaxReqs

\* The response the client receives is the first write; a later write finds
\* the headers already sent.
Sent(r) == r.writes[1]

Ok(r) == Sent(r).status = 200

\* The request is served: the store is left as the handler left it and the
\* request is remembered with the document it addressed as it was before
\* (`before`) and whether every other document is as it was (`frame`).
Serve(op, caller, id, cid, text, fault, out) ==
    /\ left > 0
    /\ posts' = out.posts
    /\ last' = [ op |-> op, caller |-> caller, id |-> id, cid |-> cid,
                 text |-> text, fault |-> fault, writes |-> out.writes,
                 before |-> FindById(posts, id),
                 frame |-> \A i \in (DOMAIN posts \cup DOMAIN out.posts) \ {id} :
                              FindById(posts, i) = FindById(out.posts, i) ]
    /\ orig' = IF /\ op = "ToggleLike" /\ out.writes[1].status = 200
                  /\ last.op = "ToggleLike" /\ Ok(last)
                  /\ last.caller = caller /\ last.id = id
               THEN << last.before[1].likes >>
               ELSE << >>
    /\ deleted' = IF op = "DeletePost" /\ out.writes[1].status = 200
                  THEN deleted \cup {id} ELSE deleted
    /\ left' = left - 1
    /\ UNCHANGED asyncVars

CreatePost ==
    \E caller \in Callers, text \in PostTexts, fault \in BOOLEAN :
        LET out == CreatePostH(posts, nextPostId, caller, text, fault)
            created == out.posts # posts
        IN  /\ fault => text # ""
            /\ created => nextPostId <= MaxPosts
            /\ Serve("CreatePost", caller, nextPostId, 0, text, fault, out)
            /\ nextPostId' = IF created THEN nextPostId + 1 ELSE nextPostId
            /\ UNCHANGED nextCommentId

ListPosts ==
    \E fault \in BOOLEAN :
        /\ Serve("ListPosts", NoCaller, BadId, 0, "", fault, ListPostsH(posts, fault))
        /\ UNCHANGED <<nextPostId, nextCommentId>>

GetPost ==
    \E id \in RequestIds, fault \in BOOLEAN :
        /\ fault => id # BadId
        /\ Serve("GetPost", NoCaller, id, 0, "", fault, GetPostH(posts, id, fault))
        /\ UNCHANGED <<nextPostId, nextCommentId>>

DeletePost ==
    \E caller \in Callers, id \in RequestIds, fault \in BOOLEAN :
        /\ fault => id # BadId
        /\ Serve("DeletePost", caller, id, 0, "", fault,
                 DeletePostH(posts, caller, id, fault))
        /\ UNCHANGED <<nextPostId, nextCommentId>>

ToggleLike ==
    \E caller \in Callers, id \in RequestIds, fault \in BOOLEAN :
        /\ fault => id # BadId
        /\ Serve("ToggleLike", caller, id, 0, "", fault,
                 ToggleLikeH(posts, caller, id, fault))
        /\ UNCHANGED <<nextPostId, nextCommentId>>

AddComment ==
    \E caller \in Callers, id \in RequestIds, text \in CommentTexts, fault \in BOOLEAN :
        LET out == AddCommentH(posts, nextCommentId, caller, id, text, fault)
            added == out.posts # posts
        IN  /\ fault => text # "" /\ id # BadId
            /\ added => nextCommentId <= MaxComments
            /\ Serve("AddComment", caller, id, nextCommentId, text, fault, out)
            /\ nextCommentId' = IF added THEN nextCommentId + 1 ELSE nextCommentId
            /\ UNCHANGED nextPostId

DeleteComment ==
    \E caller \in Callers, id \in RequestIds, cid \in RequestCommentIds, fault \in BOOLEAN :
        /\ fault => id # BadId
        /\ Serve("DeleteComment", caller, id, cid, "", fault,
                 DeleteCommentH(posts, caller, id, cid, fault))
        /\ UNCHANGED <<nextPostId, nextCommentId>>

Next ==
    \/ CreatePost
    \/ ListPosts
    \/ GetPost
    \/ DeletePost
    \/ ToggleLike
    \/ AddComment
    \/ DeleteComment

Spec == Init /\ [][Next]_vars

\* ------------------------------------------------------------- SpecLikes
InitLikes == InitStore /\ left = MaxLikeReqs

NextLikes ==
    \/ CreatePost
    \/ DeletePost
    \/ ToggleLike

SpecLikes == InitLikes /\ [][NextLikes]_vars

\* ---------------------------------------------------------- SpecImported
\* The schema does not keep comment ids distinct: a document written by
\* another client of the collection may repeat one.
ImportedIds == {1, 2}

ImportedComments ==
    { NewComment(cid, u, "a", UserFindById(u)[1]) :
          cid \in ImportedIds, u \in RegisteredUsers }

ImportedCommentSeqs ==
    UNION { [1..n -> ImportedComments] : n \in 0..MaxImported }

InitImported ==
    /\ \E owner \in RegisteredUsers, comments \in ImportedCommentSeqs :
           posts = 1 :> [ NewPost(owner, "p", UserFindById(owner)[1], 1)
                            EXCEPT !.comments = comments ]
    /\ nextPostId = 2
    /\ nextCommentId = MaxComments + 1
    /\ last = NoReq
    /\ orig = << >>
    /\ deleted = {}
    /\ inflight = [s \in Slots |-> Idle]
    /\ lastSave = NoSave
    /\ prevSave = NoSave
    /\ wcount = [i \in PostIds |-> 0]
    /\ nstep = 0
    /\ left = MaxImportedReqs

NextImported ==
    \/ GetPost
    \/ DeleteComment

SpecImported == InitImported /\ [][NextImported]_vars

\* ------------------------------------------------------------- SpecAsync
\* A request suspended between its findById and its save / remove holds the
\* document as findById returned it (`doc`) and the number of writes the
\* document had seen by then (`readAt`).
Suspended(op, caller, id, cid, text) ==
    [ op |-> op, caller |-> caller, id |-> id, cid |-> cid, text |-> text,
      doc |-> posts[id], readAt |-> wcount[id] ]

\* post.save() after an array was unshifted or reassigned: the array is
\* written whole over the stored one, whatever was stored meanwhile; the
\* other paths of the stored document are left alone. A document removed
\* meanwhile is not written back.
Save(ps, id, path, value) ==
    IF id \in DOMAIN ps THEN [ps EXCEPT ![id][path] = value] ELSE ps

Step ==
    /\ nstep < MaxSteps
    /\ nstep' = nstep + 1
    /\ UNCHANGED seqVars

\* The array write of slot s took effect and was answered 200 with `resp`.
Saved(s, kind, base, resp, cid) ==
    LET r == inflight[s] IN
    /\ wcount' = [wcount EXCEPT ![r.id] = @ + 1]
    /\ prevSave' = lastSave
    /\ lastSave' = [ kind |-> kind, op |-> r.op, id |-> r.id, caller |-> r.caller, cid |-> cid,
                     readAt |-> r.readAt, savedAt |-> wcount[r.id] + 1,
                     base |-> base, status |-> 200, resp |-> resp,
                     stored |-> posts'[r.id][kind] ]

Finish(s) == inflight' = [inflight EXCEPT ![s] = Idle]

\* router.post('/') for a valid text and a registered caller: one insert.
AsyncCreatePost ==
    \E caller \in RegisteredUsers, text \in PostTexts \ {""} :
        /\ nextPostId <= MaxPosts
        /\ Step
        /\ posts' = CreatePostH(posts, nextPostId, caller, text, FALSE).posts
        /\ nextPostId' = nextPostId + 1
        /\ UNCHANGED <<nextCommentId, inflight, lastSave, prevSave, wcount>>

\* router.put('/:id/tlike'), up to `await Post.findById`.
ToggleLikeFind(s) ==
    \E caller \in Callers, id \in DOMAIN posts :
        /\ inflight[s] = Idle
        /\ Step
        /\ inflight' = [inflight EXCEPT ![s] = Suspended("ToggleLike", caller, id, 0, "")]
        /\ UNCHANGED <<posts, nextPostId, nextCommentId, lastSave, prevSave, wcount>>

\* Faulty variant: the toggle is applied to the likes stored now, not to those read.
ToggleLikeSaveFresh(s) ==
    LET r == inflight[s] IN
    /\ r.op = "ToggleLike"
    /\ Step
    /\ Finish(s)
    /\ UNCHANGED <<nextPostId, nextCommentId>>
    /\ IF r.id \in DOMAIN posts
       THEN LET likes == ToggleLikes(posts[r.id].likes, r.caller) IN
            /\ posts' = Save(posts, r.id, "likes", likes)
            /\ Saved(s, "likes", r.doc.likes, likes, 0)
       ELSE UNCHANGED <<posts, lastSave, prevSave, wcount>>

\* router.put('/:id/tlike'), from the if/else to the response.
ToggleLikeSave(s) ==
    LET r == inflight[s]
        likes == ToggleLikes(r.doc.likes, r.caller)
    IN  /\ r.op = "ToggleLike"
        /\ Step
        /\ Finish(s)
        /\ posts' = Save(posts, r.id, "likes", likes)
        /\ UNCHANGED <<nextPostId, nextCommentId>>
        /\ IF r.id \in DOMAIN posts
           THEN Saved(s, "likes", r.doc.likes, likes, 0)
           ELSE UNCHANGED <<lastSave, prevSave, wcount>>

InFlight(op) == { s \in Slots : inflight[s].op = op }

\* router.post('/:id'), up to `await Post.findById`, for a valid text and a
\* registered caller.
AddCommentFind(s) ==
    \E caller \in RegisteredUsers, id \in DOMAIN posts, text \in CommentTexts \ {""} :
        /\ inflight[s] = Idle
        /\ nextCommentId + Cardinality(InFlight("AddComment")) <= MaxComments
        /\ Step
        /\ inflight' = [inflight EXCEPT ![s] = Suspended("AddComment", caller, id, 0, text)]
        /\ UNCHANGED <<posts, nextPostId, nextCommentId, lastSave, prevSave, wcount>>

\* router.post('/:id'), from newComment to the response.
AddCommentSave(s) ==
    LET r == inflight[s] IN
    /\ r.op = "AddComment"
    /\ Step
    /\ Finish(s)
    /\ LET comments ==
               UnshiftComment(r.doc.comments,
                   NewComment(nextCommentId, r.caller, r.text,
                              UserFindById(r.caller)[1]))
       IN  /\ posts' = Save(posts, r.id, "comments", comments)
           /\ IF r.id \in DOMAIN posts
              THEN Saved(s, "comments", r.doc.comments, comments, nextCommentId)
              ELSE UNCHANGED <<lastSave, prevSave, wcount>>
    /\ nextCommentId' = nextCommentId + 1
    /\ UNCHANGED nextPostId

\* router.delete('/:p_id/:c_id'), up to the ownership test, when it passes.
DeleteCommentFind(s) ==
    \E caller \in Callers, id \in DOMAIN posts, cid \in CommentIds :
        LET commentsMatched == CommentsMatched(posts[id].comments, cid) IN
        /\ inflight[s] = Idle
        /\ Len(commentsMatched) = 1
        /\ commentsMatched[1].user = caller
        /\ Step
        /\ inflight' = [inflight EXCEPT ![s] = Suspended("DeleteComment", caller, id, cid, "")]
        /\ UNCHANGED <<posts, nextPostId, nextCommentId, lastSave, prevSave, wcount>>

\* router.delete('/:p_id/:c_id'), from the filter to the response.
DeleteCommentSave(s) ==
    LET r == inflight[s]
        comments == RemoveComment(r.doc.comments, r.cid)
    IN  /\ r.op = "DeleteComment"
        /\ Step
        /\ Finish(s)
        /\ posts' = Save(posts, r.id, "comments", comments)
        /\ UNCHANGED <<nextPostId, nextCommentId>>
        /\ IF r.id \in DOMAIN posts
           THEN Saved(s, "comments", r.doc.comments, comments, r.cid)
           ELSE UNCHANGED <<lastSave, prevSave, wcount>>

\* router.delete('/:id'), up to the ownership test, when it passes.
DeletePostFind(s) ==
    \E caller \in Callers, id \in DOMAIN posts :
        /\ inflight[s] = Idle
        /\ posts[id].user = caller
        /\ Step
        /\ inflight' = [inflight EXCEPT ![s] = Suspended("DeletePost", caller, id, 0, "")]
        /\ UNCHANGED <<posts, nextPostId, nextCommentId, lastSave, prevSave, wcount>>

\* router.delete('/:id'), post.remove() and the response.
DeletePostRemove(s) ==
    LET r == inflight[s] IN
    /\ r.op = "DeletePost"
    /\ Step
    /\ Finish(s)
    /\ posts' = [i \in DOMAIN posts \ {r.id} |-> posts[i]]
    /\ UNCHANGED <<nextPostId, nextCommentId, lastSave, prevSave, wcount>>

NextAsync ==
    \/ AsyncCreatePost
    \/ \E s \in Slots : ToggleLikeFind(s)
    \/ \E s \in Slots : ToggleLikeSave(s)
    \/ \E s \in Slots : AddCommentFind(s)
    \/ \E s \in Slots : AddCommentSave(s)
    \/ \E s \in Slots : DeleteCommentFind(s)
    \/ \E s \in Slots : DeleteCommentSave(s)
    \/ \E s \in Slots : DeletePostFind(s)
    \/ \E s \in Slots : DeletePostRemove(s)

SpecAsync == Init /\ [][NextAsync]_vars

\* ---------------------------------------------------------------- claims
Range(seq) == { seq[i] : i \in DOMAIN seq }

RemoveAt(seq, i) == SubSeq(seq, 1, i - 1) \o SubSeq(seq, i + 1, Len(seq))

IsMsg(w, status, msg) ==
    w.status = status /\ w.body.kind = "msg" /\ w.body.val = msg

IsServerError(w) ==
    w.status = 500 /\ w.body.kind = "text" /\ w.body.val = "Server Error"

\* The request reached the store with a castable id and the store answered.
NoErr(r) == r.id # BadId /\ ~r.fault

\* The addressed document and every other document are as they were.
StoreUntouched(r) == FindById(posts, r.id) = r.before /\ r.frame

Matches(comments, cid) == { i \in DOMAIN comments : comments[i].id = cid }

\* C1, as stated: two consecutive successful ToggleLike requests by one
\* caller on one post leave the post's likes equal to the original likes in
\* content and in order, wherever the caller stood in them.
C1_InvolutionKeepsOrder ==
    orig # << >> => posts[last.id].likes = orig[1]

\* C1, amended: two consecutive successful ToggleLike requests by caller U on
\* one post restore the likes as a set; the order is restored when U was
\* absent or stood at the head; when U stood elsewhere, U ends at the head and
\* the other likers keep their relative order.
C1_InvolutionUpToHead ==
    orig # << >> =>
        LET before == orig[1]
            U == last.caller
            now == posts[last.id].likes
        IN  /\ Range(now) = Range(before)
            /\ Len(now) = Len(before)
            /\ (U \notin Range(before) \/ before[1] = U) => now = before
            /\ U \in Range(before) =>
                   now = << U >> \o SelectSeq(before, LAMBDA x : x # U)

\* Two toggles by a caller who stood in the likes behind another liker.
C1_Witness ==
    /\ orig # << >>
    /\ last.caller \in Range(orig[1])
    /\ orig[1][1] # last.caller

\* C3: DeletePost on an existing post by a caller who is not its owner is
\* answered 401 {msg} and the store is unchanged; by the owner it is answered
\* 200 {msg} and the post is gone; a GetPost of a deleted post is answered
\* 404; a post that leaves the store does so by its owner's DeletePost.
C3_DeletePostOwnerOnly ==
    /\ (last.op = "DeletePost" /\ NoErr(last) /\ last.before # << >>) =>
           IF last.caller # last.before[1].user
           THEN IsMsg(Sent(last), 401, "Not your post") /\ StoreUntouched(last)
           ELSE /\ IsMsg(Sent(last), 200, "Post deleted")
                /\ last.id \notin DOMAIN posts
                /\ last.frame
    /\ (last.op = "GetPost" /\ NoErr(last) /\ last.id \in deleted) =>
           IsMsg(Sent(last), 404, "Post not found")
    /\ \A id \in deleted : id \notin DOMAIN posts
    /\ (last.before # << >> /\ last.id \notin DOMAIN posts) =>
           /\ last.op = "DeletePost"
           /\ last.caller = last.before[1].user
           /\ Ok(last)
    /\ last.frame

\* A GetPost of a post its owner deleted.
C3_Witness ==
    last.op = "GetPost" /\ NoErr(last) /\ last.id \in deleted

\* C4: DeleteComment on an existing post in which the comment id matches no
\* comment or more than one is answered 404 and leaves every document as it
\* was, whoever calls.
C4_DeleteCommentAmbiguous ==
    ( /\ last.op = "DeleteComment" /\ NoErr(last) /\ last.before # << >>
      /\ Cardinality(Matches(last.before[1].comments, last.cid)) # 1 ) =>
        /\ IsMsg(Sent(last), 404, "Comment not found")
        /\ StoreUntouched(last)

\* A DeleteComment whose id matches two comments, called by the owner of both.
C4_Witness ==
    /\ last.op = "DeleteComment" /\ NoErr(last) /\ last.before # << >>
    /\ Cardinality(Matches(last.before[1].comments, last.cid)) > 1
    /\ \A i \in Matches(last.before[1].comments, last.cid) :
           last.before[1].comments[i].user = last.caller

\* C5: DeleteComment matching exactly one comment is answered 401 and changes
\* nothing when the caller is not the comment's owner (the post's owner
\* included); by the comment's owner it removes that comment alone and keeps
\* the others in order. A comment leaves an existing post only this way.
C5_DeleteCommentOwnerOnly ==
    /\ ( /\ last.op = "DeleteComment" /\ NoErr(last) /\ last.before # << >>
         /\ Cardinality(Matches(last.before[1].comments, last.cid)) = 1 ) =>
           LET old == last.before[1]
               i == CHOOSE j \in Matches(old.comments, last.cid) : TRUE
           IN  IF last.caller # old.comments[i].user
               THEN IsMsg(Sent(last), 401, "Not your comment") /\ StoreUntouched(last)
               ELSE /\ IsMsg(Sent(last), 200, "Comment deleted")
                    /\ last.id \in DOMAIN posts
                    /\ posts[last.id] =
                           [old EXCEPT !.comments = RemoveAt(old.comments, i)]
                    /\ last.frame
    /\ (last.before # << >> /\ last.id \in DOMAIN posts) =>
           \A i \in DOMAIN last.before[1].comments :
               LET c == last.before[1].comments[i] IN
               Matches(posts[last.id].comments, c.id) = {} =>
                   /\ last.op = "DeleteComment"
                   /\ Ok(last)
                   /\ last.cid = c.id
                   /\ last.caller = c.user
    /\ last.frame

\* The comment's owner deletes one of several comments.
C5_Witness ==
    /\ last.op = "DeleteComment" /\ Ok(last)
    /\ Len(last.before[1].comments) > 1

\* C6: a successful AddComment answers with, and stores, the comments with a
\* new comment of the given text and the caller as user at index 0, followed
\* by the previous comments in order; likes, text and user of the post are
\* unchanged; GetPost shows the stored document.
C6_AddCommentAtHead ==
    /\ (last.op = "AddComment" /\ Ok(last)) =>
           /\ last.before # << >>
           /\ last.id \in DOMAIN posts
           /\ LET old == last.before[1]
                  new == posts[last.id]
                  body == Sent(last).body
              IN  /\ body.kind = "comments"
                  /\ body.val = new.comments
                  /\ Len(new.comments) = Len(old.comments) + 1
                  /\ new.comments[1].text = last.text
                  /\ new.comments[1].user = last.caller
                  /\ Tail(new.comments) = old.comments
                  /\ new.likes = old.likes
                  /\ new.text = old.text
                  /\ new.user = old.user
    /\ (last.op = "GetPost" /\ Ok(last)) =>
           /\ Sent(last).body.kind = "post"
           /\ last.id \in DOMAIN posts
           /\ Sent(last).body.val = posts[last.id]

\* A comment added to a post that already has one.
C6_Witness ==
    /\ last.op = "AddComment" /\ Ok(last)
    /\ Len(last.before[1].comments) > 0

\* The handler passed validation (it has none, or the text is not empty).
Validated(r) == r.op \in {"CreatePost", "AddComment"} => r.text # ""

\* C7: a malformed id is answered 404 {msg: "Post not found"} by GetPost and
\* DeletePost and 404 by DeleteComment; every other error raised in a handler
\* (a store failure, a null user or post dereferenced) is answered 500
\* 'Server Error'.
C7_ErrorMapping ==
    /\ (last.op \in {"GetPost", "DeletePost"} /\ last.id = BadId) =>
           IsMsg(Sent(last), 404, "Post not found")
    /\ (last.op = "DeleteComment" /\ last.id = BadId) =>
           Sent(last).status = 404
    /\ ( /\ last.op # "none" /\ Validated(last) /\ last.fault
         /\ last.op \in {"GetPost", "DeletePost", "DeleteComment"} => last.id # BadId ) =>
           IsServerError(Sent(last))
    /\ ( /\ last.op \in {"ToggleLike", "AddComment"} /\ Validated(last)
         /\ last.id = BadId \/ last.before = << >> ) =>
           IsServerError(Sent(last))
    /\ ( /\ last.op \in {"CreatePost", "AddComment"} /\ Validated(last)
         /\ last.caller \notin RegisteredUsers ) =>
           IsServerError(Sent(last))

\* A GetPost with a malformed id.
C7_Witness ==
    last.op = "GetPost" /\ last.id = BadId

\* C8: ToggleLike and AddComment for a well-formed id that matches no stored
\* post are answered 404 and leave the store unchanged.
C8_MissingPostNotFound ==
    ( /\ last.op \in {"ToggleLike", "AddComment"} /\ Validated(last)
      /\ NoErr(last) /\ last.before = << >> ) =>
        Sent(last).status = 404 /\ StoreUntouched(last)

\* The last two array writes come from two requests of the given kind on one
\* post that ran read, read, save, save with no other write in between.
Interleaved(op) ==
    /\ prevSave.kind # "none"
    /\ prevSave.op = op /\ lastSave.op = op
    /\ prevSave.id = lastSave.id
    /\ prevSave.readAt = lastSave.readAt
    /\ prevSave.savedAt = prevSave.readAt + 1
    /\ lastSave.savedAt = lastSave.readAt + 2

CommentIdsOf(comments) == { comments[i].id : i \in DOMAIN comments }

\* C2: in every state reached from the empty collection, with the handlers'
\* reads and writes interleaved, no user id occurs twice in the likes of a
\* stored post.
C2_LikesDistinct ==
    \A id \in DOMAIN posts :
        Cardinality(Range(posts[id].likes)) = Len(posts[id].likes)

\* Two ToggleLikes of one caller on one post ran read, read, save, save and
\* left the caller among the likes.
C2_Witness ==
    /\ Interleaved("ToggleLike")
    /\ prevSave.caller = lastSave.caller
    /\ lastSave.id \in DOMAIN posts
    /\ lastSave.caller \in Range(posts[lastSave.id].likes)

C10_SingleResponse ==
    last.op # "none" => Len(last.writes) = 1

====
